---- MODULE Spec2Model ----
(***************************************************************************)
(* Model of the identity / root lifecycle store of the signup sequencer    *)
(* (src/src/database/mod.rs).  The tables `identities`,                    *)
(* `unprocessed_identities` and `provers` are the state; every public      *)
(* method of                                                               *)
(* `Database` that the properties below talk about is one action (or, in   *)
(* the concurrent specifications, one action per SQL statement).           *)
(***************************************************************************)
EXTENDS Integers, Sequences, FiniteSets, TLC

\* ------------------------------------------------------------------ bounds
MaxLeaves == 3      \* rows the sequential specification inserts
MaxRoot   == 3      \* root hashes are 1..MaxRoot
MaxCommit == 2      \* commitments are 1..MaxCommit
MaxClock  == 1      \* CURRENT_TIMESTAMP ranges over 0..MaxClock
MaxScenario == 7    \* rows of the lifecycle scenario (num_identities)
MaxTx     == 2      \* concurrently open mark_* transactions
MaxIntake == 1      \* rows held by unprocessed_identities at a time
MaxHandoff == 2     \* rows the assigner hands over to identities
MaxMsg    == 1      \* error messages are 1..MaxMsg
MaxAnyLeaf == 2     \* leaf indices a caller may pass are 0..MaxAnyLeaf-1
MaxListed == 3      \* intake rows while get_unprocessed_commitments is studied
MaxFetchCount == 2  \* the LIMIT of get_unprocessed_commitments; the source
                    \* binds MAX_UNPROCESSED_FETCH_COUNT = 10_000, scaled down
                    \* here so that a table can hold more matching rows
MaxBatch  == 2      \* batch sizes are 1..MaxBatch
MaxUrl    == 2      \* prover urls are 1..MaxUrl
MaxTimeout == 2     \* prover timeouts are 1..MaxTimeout
MaxLedger == 3      \* intake rows while a commitment is followed through
MaxCallers == 2     \* intake callers that run at the same time
MaxAssigners == 2   \* assigners running at the same time
MaxVersion == 5     \* migration versions are 1..MaxVersion

Roots       == 1..MaxRoot
Commitments == 1..MaxCommit
Messages    == 1..MaxMsg

\* ------------------------------------------------------------ value domain
NULL == -1          \* SQL NULL in a timestamp column
None == -1          \* Option::None of a leaf index

StatusPending   == "pending"
StatusProcessed == "processed"
StatusMined     == "mined"

\* finality rank of a status: Mined > Processed > Pending
Rank(s) == IF s = StatusMined THEN 2 ELSE IF s = StatusProcessed THEN 1 ELSE 0

VARIABLES
    identities,     \* table identities: leaf_index -> row
    now,            \* the database clock (CURRENT_TIMESTAMP)
    last,           \* ghost: the last completed call and the table before it
    scn,            \* lifecycle scenario: number of mark_* calls done so far
    txs,            \* open transactions of concurrent mark_* calls
    unprocessed,    \* table unprocessed_identities, in insertion order
    asg,            \* the assigner handing a commitment over to identities
    ex,             \* a caller inside identity_exists
    hlog,           \* ghost: commitments taken in / removed without a row
    fetched,        \* what the running get_unprocessed_commitments returned
    provers,        \* table provers: a set of rows
    plog,           \* ghost: the last registry call and the entry per key
    boot,           \* the persisted schema version and the last Database::new
    writers,        \* assigners between next_leaf_index() and their insert
    track,          \* ghost: commitments taken in and not failed or removed since
    reads,          \* the read call that is running and how it ended
    callers         \* intake callers between exists(C) and insert_new(C)

intakeVars == <<unprocessed, asg, ex, hlog, fetched>>

registryVars == <<provers, plog>>

vars == <<identities, now, last, scn, txs, unprocessed, asg, ex, hlog,
          fetched, provers, plog, boot, writers, track, reads,
          callers>>

Tx == 1..MaxTx

EmptyTable == [i \in {} |-> 0]

NoCall == [op |-> "none", root |-> 0, res |-> "none", before |-> EmptyTable,
           rep |-> FALSE]

Call(op, root, res) ==
    [op |-> op, root |-> root, res |-> res, before |-> identities,
     rep |-> (last.op = op /\ last.root = root)]

\* ------------------------------------------------------------ SQL queries
\* variant: a missing root resolves to leaf index 0 instead of None
get_leaf_index_by_root_or_zero(ids, root) ==
    IF \E i \in DOMAIN ids : ids[i].root = root
    THEN CHOOSE i \in DOMAIN ids : ids[i].root = root
    ELSE 0

\* SELECT leaf_index FROM identities WHERE root = $1
get_leaf_index_by_root(ids, root) ==
    IF \E i \in DOMAIN ids : ids[i].root = root
    THEN CHOOSE i \in DOMAIN ids : ids[i].root = root
    ELSE None

\* variant: the least leaf_index that no row carries
get_next_leaf_index_first_free(ids) ==
    CHOOSE i \in 0..Cardinality(DOMAIN ids) :
        /\ i \notin DOMAIN ids
        /\ \A j \in 0..Cardinality(DOMAIN ids) : j \notin DOMAIN ids => i <= j

\* variant: the greatest leaf_index is returned as it is, without the + 1
get_next_leaf_index_last(ids) ==
    IF DOMAIN ids = {} THEN 0
    ELSE CHOOSE i \in DOMAIN ids : \A j \in DOMAIN ids : j <= i

\* SELECT leaf_index FROM identities ORDER BY leaf_index DESC LIMIT 1
get_next_leaf_index(ids) ==
    IF DOMAIN ids = {} THEN 0
    ELSE (CHOOSE i \in DOMAIN ids : \A j \in DOMAIN ids : j <= i) + 1

\* variant: only the target row is selected (leaf_index = $1)
ProcessedPreviousWhereTargetOnly(row, i, t) ==
    /\ i = t
    /\ row.status # StatusProcessed
    /\ row.status # StatusMined

\* variant: the filter `status <> processed` is dropped
ProcessedPreviousWhereNoProcessedFilter(row, i, t) ==
    /\ i <= t
    /\ row.status # StatusMined

\* WHERE clause and SET clause of update_previous_roots in
\* mark_root_as_processed
ProcessedPreviousWhere(row, i, t) ==
    /\ i <= t
    /\ row.status # StatusProcessed
    /\ row.status # StatusMined

\* variant: SET status = processed only, mined_at is not stamped
ProcessedPreviousSetNoStamp(row, ts) ==
    [row EXCEPT !.status = StatusProcessed]

ProcessedPreviousSet(row, ts) ==
    [row EXCEPT !.status = StatusProcessed, !.mined_at = ts]

\* WHERE clause and SET clause of update_next_roots in mark_root_as_processed
ProcessedNextWhere(row, i, t) == i > t

\* variant: the reset forgets to clear mined_at
ProcessedNextSetKeepsMinedAt(row) ==
    [row EXCEPT !.status = StatusPending]

ProcessedNextSet(row) ==
    [row EXCEPT !.status = StatusPending, !.mined_at = NULL]

\* variant: the filter on leaf_index is dropped
MinedPreviousWhereAnyIndex(row, i, t) == row.status # StatusMined

\* variant: strict comparison (leaf_index < $1)
MinedPreviousWhereStrict(row, i, t) ==
    /\ i < t
    /\ row.status # StatusMined

\* WHERE clause and SET clause of update_previous_roots in mark_root_as_mined
MinedPreviousWhere(row, i, t) ==
    /\ i <= t
    /\ row.status # StatusMined

\* variant: SET status = mined, mined_at = CURRENT_TIMESTAMP
MinedPreviousSetStamps(row, ts) ==
    [row EXCEPT !.status = StatusMined, !.mined_at = ts]

MinedPreviousSet(row, ts) ==
    [row EXCEPT !.status = StatusMined]

\* the three UPDATE statements, applied to a whole table
ProcessedUpdatePreviousRoots(ids, t, ts) ==
    [i \in DOMAIN ids |->
        IF ProcessedPreviousWhere(ids[i], i, t)
        THEN ProcessedPreviousSet(ids[i], ts) ELSE ids[i]]

\* variant: DELETE FROM identities WHERE leaf_index > $1
ProcessedUpdateNextRootsDeletes(ids, t) ==
    [i \in {j \in DOMAIN ids : j <= t} |-> ids[i]]

ProcessedUpdateNextRoots(ids, t) ==
    [i \in DOMAIN ids |->
        IF ProcessedNextWhere(ids[i], i, t)
        THEN ProcessedNextSet(ids[i]) ELSE ids[i]]

\* variant: SET status = mined, mined_at = CURRENT_TIMESTAMP
\*          WHERE leaf_index <= $1   (no status filter)
MinedUpdatePreviousRootsStamping(ids, t, ts) ==
    [i \in DOMAIN ids |->
        IF i <= t
        THEN [ids[i] EXCEPT !.status = StatusMined, !.mined_at = ts]
        ELSE ids[i]]

MinedUpdatePreviousRoots(ids, t, ts) ==
    [i \in DOMAIN ids |->
        IF MinedPreviousWhere(ids[i], i, t)
        THEN MinedPreviousSet(ids[i], ts) ELSE ids[i]]

\* SELECT status, pending_as_of, mined_at FROM identities WHERE root = $1
get_root_state(ids, root) ==
    LET i == get_leaf_index_by_root(ids, root) IN
    IF i = None THEN <<>>
    ELSE <<[root                |-> root,
            status              |-> ids[i].status,
            pending_valid_as_of |-> ids[i].pending_as_of,
            mined_valid_as_of   |-> ids[i].mined_at]>>

\* a stored status string that is the name of no Status variant
UnreadableStatus == "garbled"

\* str::parse::<Status>(): Some for the names of the variants, None otherwise
StatusFromStr(s) ==
    IF s \in {"new", "failed", "pending", "processed", "mined"}
    THEN <<s>> ELSE <<>>

\* .expect("Status is unreadable, database is corrupt"): the call ends in a
\* panic when the status of the row it read does not parse, and hands the
\* value back inside Ok otherwise
ExpectStatus(status, val) ==
    IF StatusFromStr(status) = <<>>
    THEN [res |-> "panic", val |-> <<>>]
    ELSE [res |-> "ok", val |-> val]

\* no read call is running
NoRead == [op |-> "none", arg |-> 0, unreadable |-> FALSE, res |-> "none",
           val |-> <<>>]

\* ghost: the call, whether the row it read holds an unreadable status and
\* how it ended
ReadCall(op, arg, status, out) ==
    [op |-> op, arg |-> arg,
     unreadable |-> status # <<>> /\ StatusFromStr(status[1]) = <<>>,
     res |-> out.res, val |-> out.val]

\* get_root_state as a call: Ok(None) without a row, else the parsed row
get_root_state_call(root) ==
    LET i == get_leaf_index_by_root(identities, root) IN
    reads' = IF i = None
             THEN ReadCall("get_root_state", root, <<>>,
                           [res |-> "ok", val |-> <<>>])
             ELSE ReadCall("get_root_state", root, <<identities[i].status>>,
                           ExpectStatus(identities[i].status,
                                        get_root_state(identities, root)))

\* SELECT leaf_index, status FROM identities WHERE commitment = $1 LIMIT 1
\* of several rows the database hands over any one
get_identity_leaf_index(identity) ==
    IF \A i \in DOMAIN identities : identities[i].commitment # identity
    THEN reads' = ReadCall("get_identity_leaf_index", identity, <<>>,
                           [res |-> "ok", val |-> <<>>])
    ELSE \E i \in DOMAIN identities :
            /\ identities[i].commitment = identity
            /\ reads' = ReadCall("get_identity_leaf_index", identity,
                                 <<identities[i].status>>,
                                 ExpectStatus(identities[i].status,
                                     <<[status |-> identities[i].status,
                                        leaf_index |-> i]>>))

\* variant: SELECT COUNT(*) FROM identities, without the WHERE clause
count_pending_identities_all(ids) == Cardinality(DOMAIN ids)

\* SELECT COUNT(*) as pending FROM identities WHERE status = $1
count_pending_identities(ids) ==
    Cardinality({i \in DOMAIN ids : ids[i].status = StatusPending})

\* the rows of ids selected by a status filter, least leaf_index first
RECURSIVE RowsAscending(_, _)
RowsAscending(ids, sel) ==
    IF sel = {} THEN <<>>
    ELSE LET i == CHOOSE j \in sel : \A k \in sel : j <= k IN
         <<[leaf_index |-> i, element |-> ids[i].commitment]>>
             \o RowsAscending(ids, sel \ {i})

\* variant: the query has no WHERE clause
get_commitments_by_status_unfiltered(ids, status) ==
    RowsAscending(ids, DOMAIN ids)

\* SELECT leaf_index, commitment FROM identities WHERE status = $1
\* ORDER BY leaf_index ASC
get_commitments_by_status(ids, status) ==
    RowsAscending(ids, {i \in DOMAIN ids : ids[i].status = status})

\* ---------------------------------------------------------------- actions
\* variant: the insert has no ON CONFLICT (root) arbiter
RootConflictNever(ids, root) == FALSE

\* INSERT INTO identities ... ON CONFLICT (root) DO NOTHING
RootConflict(ids, root) == \E i \in DOMAIN ids : ids[i].root = root

\* the primary key of identities is leaf_index
LeafIndexConflict(ids, leaf_index) == leaf_index \in DOMAIN ids

\* variant: the INSERT also writes mined_at = CURRENT_TIMESTAMP
NewIdentityRowMinedNow(identity, root, ts) ==
    [commitment |-> identity, root |-> root, status |-> StatusPending,
     pending_as_of |-> ts, mined_at |-> ts]

NewIdentityRow(identity, root, ts) ==
    [commitment |-> identity, root |-> root, status |-> StatusPending,
     pending_as_of |-> ts, mined_at |-> NULL]

InsertRow(ids, leaf_index, row) ==
    [i \in DOMAIN ids \cup {leaf_index} |->
        IF i = leaf_index THEN row ELSE ids[i]]

\* variant: ON CONFLICT DO NOTHING without a target, which also swallows a
\* conflict on leaf_index
insert_pending_identity_any_conflict(leaf_index, identity, root) ==
    /\ IF RootConflict(identities, root)
          \/ LeafIndexConflict(identities, leaf_index)
       THEN /\ identities' = identities
            /\ last' = Call("insert", root, "ok")
       ELSE /\ identities' =
                InsertRow(identities, leaf_index,
                          NewIdentityRow(identity, root, now))
            /\ last' = Call("insert", root, "ok")
    /\ UNCHANGED now

insert_pending_identity(leaf_index, identity, root) ==
    /\ IF RootConflict(identities, root)
       THEN /\ identities' = identities
            /\ last' = Call("insert", root, "ok")
       ELSE IF LeafIndexConflict(identities, leaf_index)
       THEN /\ identities' = identities
            /\ last' = Call("insert", root, "InternalError")
       ELSE /\ identities' =
                InsertRow(identities, leaf_index,
                          NewIdentityRow(identity, root, now))
            /\ last' = Call("insert", root, "ok")
    /\ UNCHANGED now

\* an error at begin, execute or commit (`?`): the transaction is dropped
\* and nothing is written
insert_pending_identity_error(root) ==
    /\ identities' = identities
    /\ last' = Call("insert", root, "InternalError")
    /\ UNCHANGED now

mark_root_as_processed(root) ==
    LET t == get_leaf_index_by_root(identities, root) IN
    /\ IF t = None
       THEN /\ identities' = identities
            /\ last' = Call("processed", root, "MissingRoot")
       ELSE /\ identities' =
                ProcessedUpdateNextRoots(
                    ProcessedUpdatePreviousRoots(identities, t, now), t)
            /\ last' = Call("processed", root, "ok")
    /\ UNCHANGED now

mark_root_as_mined(root) ==
    LET t == get_leaf_index_by_root(identities, root) IN
    /\ IF t = None
       THEN /\ identities' = identities
            /\ last' = Call("mined", root, "MissingRoot")
       ELSE /\ identities' = MinedUpdatePreviousRoots(identities, t, now)
            /\ last' = Call("mined", root, "ok")
    /\ UNCHANGED now

\* the database clock advances between calls
Tick ==
    /\ now < MaxClock
    /\ now' = now + 1
    /\ UNCHANGED <<identities, last>>

\* --------------------------------------------------------- transactions
\* A mark_* call is pool.begin(), the root lookup, its UPDATE statements and
\* commit().  The pool opens transactions at the default isolation level of
\* the store, READ COMMITTED: a statement selects its rows from the state
\* committed when it starts (plus the transaction's own writes), locks each
\* selected row, waits while another transaction holds the lock and then
\* re-evaluates its WHERE clause on the newest committed version of that row.
\* Writes become visible to others at commit; rows stay locked until then.
IdleTx == [pc |-> "idle", op |-> "none", root |-> 0, ts |-> 0, t |-> None,
           cand |-> {}, w |-> EmptyTable]

\* what transaction x reads: committed rows overlaid with its own writes
View(x) ==
    [i \in DOMAIN identities |->
        IF i \in DOMAIN txs[x].w THEN txs[x].w[i] ELSE identities[i]]

LockedByOther(x, i) == \E y \in Tx : y # x /\ i \in DOMAIN txs[y].w

\* the WHERE and SET clause of the statement transaction x is executing
StmtWhere(x, row, i) ==
    IF txs[x].pc \in {"next_start", "next_run"}
    THEN ProcessedNextWhere(row, i, txs[x].t)
    ELSE IF txs[x].op = "processed"
    THEN ProcessedPreviousWhere(row, i, txs[x].t)
    ELSE MinedPreviousWhere(row, i, txs[x].t)

StmtSet(x, row) ==
    IF txs[x].pc \in {"next_start", "next_run"}
    THEN ProcessedNextSet(row)
    ELSE IF txs[x].op = "processed"
    THEN ProcessedPreviousSet(row, txs[x].ts)
    ELSE MinedPreviousSet(row, txs[x].ts)

\* the step after the statement transaction x is executing
AfterStmt(x) ==
    IF txs[x].op = "processed" /\ txs[x].pc \in {"prev_start", "prev_run"}
    THEN "next_start"
    ELSE "commit"

\* let mut tx = self.pool.begin().await?
TxBeginStep(x, op, root) ==
    /\ txs[x].pc = "idle"
    /\ txs' = [txs EXCEPT ![x] = [IdleTx EXCEPT !.pc = "lookup", !.op = op,
                                                !.root = root, !.ts = now]]
    /\ identities' = identities

TxBegin(x, op, root) ==
    /\ TxBeginStep(x, op, root)
    /\ UNCHANGED <<now, last, scn, intakeVars, registryVars, boot, writers, track, reads,
                   callers>>

\* Self::get_leaf_index_by_root(&mut tx, root); a missing root returns
\* Err(MissingRoot) and the dropped transaction rolls back
TxLookupStep(x) ==
    /\ txs[x].pc = "lookup"
    /\ LET t == get_leaf_index_by_root(identities, txs[x].root) IN
       txs' = [txs EXCEPT ![x] =
                  IF t = None THEN IdleTx
                  ELSE [@ EXCEPT !.pc = "prev_start", !.t = t]]
    /\ identities' = identities

TxLookup(x) ==
    /\ TxLookupStep(x)
    /\ UNCHANGED <<now, last, scn, intakeVars, registryVars, boot, writers, track, reads,
                   callers>>

\* tx.execute(update_...): the statement takes its snapshot and selects rows
TxStmtStart(x) ==
    /\ txs[x].pc \in {"prev_start", "next_start"}
    /\ LET c == {i \in DOMAIN identities : StmtWhere(x, View(x)[i], i)} IN
       txs' = [txs EXCEPT ![x] =
                  IF c = {} THEN [@ EXCEPT !.pc = AfterStmt(x)]
                  ELSE [@ EXCEPT !.cand = c,
                                 !.pc = IF @ = "prev_start" THEN "prev_run"
                                        ELSE "next_run"]]
    /\ UNCHANGED <<identities, now, last, scn, intakeVars, registryVars, boot, writers, track, reads,
                   callers>>

\* the statement locks one selected row, re-checks it and updates it
TxStmtRow(x, i) ==
    /\ txs[x].pc \in {"prev_run", "next_run"}
    /\ i \in txs[x].cand
    /\ ~LockedByOther(x, i)
    /\ LET row  == View(x)[i]
           w2   == IF StmtWhere(x, row, i)
                   THEN [j \in DOMAIN txs[x].w \cup {i} |->
                            IF j = i THEN StmtSet(x, row) ELSE txs[x].w[j]]
                   ELSE txs[x].w
           rest == txs[x].cand \ {i}
       IN txs' = [txs EXCEPT ![x] =
                     [@ EXCEPT !.w = w2, !.cand = rest,
                               !.pc = IF rest = {} THEN AfterStmt(x) ELSE @]]
    /\ UNCHANGED <<identities, now, last, scn, intakeVars, registryVars, boot, writers, track, reads,
                   callers>>

\* tx.commit().await?
TxCommitStep(x) ==
    /\ txs[x].pc = "commit"
    /\ identities' = View(x)
    /\ txs' = [txs EXCEPT ![x] = IdleTx]

TxCommit(x) ==
    /\ TxCommitStep(x)
    /\ UNCHANGED <<now, last, scn, intakeVars, registryVars, boot, writers, track, reads,
                   callers>>

\* variant: the statements run on the pool, outside a transaction, so what
\* they wrote before the error stays
TxAbortStepKeepsWrites(x) ==
    /\ txs[x].pc # "idle"
    /\ identities' = View(x)
    /\ txs' = [txs EXCEPT ![x] = IdleTx]

\* an error at any await (`?`: lookup, execute, commit) drops the
\* transaction, which rolls it back
TxAbortStep(x) ==
    /\ txs[x].pc # "idle"
    /\ identities' = identities
    /\ txs' = [txs EXCEPT ![x] = IdleTx]

TxAbort(x) ==
    /\ TxAbortStep(x)
    /\ UNCHANGED <<now, last, scn, intakeVars, registryVars, boot, writers, track, reads,
                   callers>>

\* ------------------------------------------------------- intake ledger
StatusNew    == "new"
StatusFailed == "failed"

\* variant: the row is stored as Failed
insert_new_identity_as_failed(identity) ==
    /\ unprocessed' = Append(unprocessed,
                             [commitment |-> identity, status |-> StatusFailed,
                              created_at |-> now, error_message |-> NULL])
    /\ hlog' = [hlog EXCEPT !.inserted = @ \cup {identity}]

\* Ok(identity): the value insert_new_identity hands back
insert_new_identity_result(identity) == identity

\* INSERT INTO unprocessed_identities (commitment, status, created_at)
insert_new_identity(identity) ==
    /\ unprocessed' = Append(unprocessed,
                             [commitment |-> identity, status |-> StatusNew,
                              created_at |-> now, error_message |-> NULL])
    /\ hlog' = [hlog EXCEPT !.inserted = @ \cup {identity}]

RECURSIVE DeleteCommitment(_, _)
DeleteCommitment(rows, commitment) ==
    IF rows = <<>> THEN <<>>
    ELSE IF Head(rows).commitment = commitment
    THEN DeleteCommitment(Tail(rows), commitment)
    ELSE <<Head(rows)>> \o DeleteCommitment(Tail(rows), commitment)

\* DELETE FROM unprocessed_identities WHERE commitment = $1
remove_unprocessed_identity(commitment) ==
    unprocessed' = DeleteCommitment(unprocessed, commitment)

\* variant: the UPDATE has no WHERE clause
update_err_unprocessed_commitment_all_rows(commitment, message) ==
    unprocessed' =
        [k \in 1..Len(unprocessed) |->
            [unprocessed[k] EXCEPT !.error_message = message,
                                   !.status = StatusFailed]]

\* UPDATE unprocessed_identities SET error_message = $1, status = $2
\* WHERE commitment = $3
update_err_unprocessed_commitment(commitment, message) ==
    unprocessed' =
        [k \in 1..Len(unprocessed) |->
            IF unprocessed[k].commitment = commitment
            THEN [unprocessed[k] EXCEPT !.error_message = message,
                                        !.status = StatusFailed]
            ELSE unprocessed[k]]

\* variant: the first query only looks at rows that are still New
ExistsUnprocessedNewOnly(commitment) ==
    \E k \in 1..Len(unprocessed) :
        /\ unprocessed[k].commitment = commitment
        /\ unprocessed[k].status = StatusNew

\* SELECT exists(SELECT 1 from unprocessed_identities where commitment = $1)
ExistsUnprocessed(commitment) ==
    \E k \in 1..Len(unprocessed) : unprocessed[k].commitment = commitment

\* variant: the second query looks at unprocessed_identities again
ExistsProcessedSameTable(commitment) ==
    \E k \in 1..Len(unprocessed) : unprocessed[k].commitment = commitment

\* SELECT exists(SELECT 1 from identities where commitment = $1)
ExistsProcessed(commitment) ==
    \E i \in DOMAIN identities : identities[i].commitment = commitment

\* identity_exists runs its two queries as two separate statements
IdleExists == [pc |-> "idle", c |-> 0, first |-> FALSE, res |-> FALSE,
               afterNew |-> FALSE, gone |-> FALSE]

ExistsFirstQuery(commitment) ==
    /\ ex.pc \in {"idle", "done"}
    /\ ex' = [IdleExists EXCEPT !.pc = "second", !.c = commitment,
                                !.first = ExistsUnprocessed(commitment),
                                !.afterNew = commitment \in hlog.inserted]
    /\ UNCHANGED <<identities, now, last, scn, txs, unprocessed, asg, hlog, fetched,
                   registryVars, boot, writers, track, reads, callers>>

ExistsSecondQuery ==
    /\ ex.pc = "second"
    /\ ex' = [ex EXCEPT !.pc = "done",
                        !.res = ex.first \/ ExistsProcessed(ex.c),
                        !.gone = ~ExistsUnprocessed(ex.c)]
    /\ UNCHANGED <<identities, now, last, scn, txs, unprocessed, asg, hlog, fetched,
                   registryVars, boot, writers, track, reads, callers>>

\* String::default(), which stands in for a NULL error_message
EmptyMessage == 0

\* SELECT status, error_message FROM unprocessed_identities
\* WHERE commitment = $1, read with fetch_optional: no row gives None, and
\* of several rows the database hands over any one; the set of the results
\* the call can return
get_unprocessed_commit_status(rows, commitment) ==
    IF \A k \in 1..Len(rows) : rows[k].commitment # commitment
    THEN {<<>>}
    ELSE {<<[status |-> rows[k].status,
             message |-> IF rows[k].error_message = NULL
                         THEN EmptyMessage ELSE rows[k].error_message]>> :
            k \in {j \in 1..Len(rows) : rows[j].commitment = commitment}}

\* get_unprocessed_commit_status as a call: the row read is parsed with
\* .expect("couldn't read status")
get_unprocessed_commit_status_call(commitment) ==
    IF ~ExistsUnprocessed(commitment)
    THEN reads' = ReadCall("get_unprocessed_commit_status", commitment, <<>>,
                           [res |-> "ok", val |-> <<>>])
    ELSE \E k \in 1..Len(unprocessed) :
            /\ unprocessed[k].commitment = commitment
            /\ reads' = ReadCall("get_unprocessed_commit_status", commitment,
                     <<unprocessed[k].status>>,
                     ExpectStatus(unprocessed[k].status,
                         <<[status |-> unprocessed[k].status,
                            message |-> IF unprocessed[k].error_message = NULL
                                        THEN EmptyMessage
                                        ELSE unprocessed[k].error_message]>>))

\* ghost: all holds C from insert_new(C) until mark_failed(C, _) or
\* remove(C); fresh holds it only if the ledger had no row of C before
\* ret is the value the last insert_new returned
NoTrack == [all |-> {}, fresh |-> {}, ret |-> None]

\* no call of get_unprocessed_commitments is running
NoFetch == [status |-> "none", rows |-> <<>>]

\* variant: the query has no WHERE clause
UnprocessedStatusWhereAny(row, status) == TRUE

\* WHERE status = $1
UnprocessedStatusWhere(row, status) == row.status = status

\* the orders in which n of the selected rows can come back: the query has
\* a LIMIT and no ORDER BY, so the database returns them in any order
FetchOrders(sel, n) ==
    {ord \in [1..n -> sel] : \A j, k \in 1..n : j # k => ord[j] # ord[k]}

\* SELECT * FROM unprocessed_identities WHERE status = $1 LIMIT $2
\* each returned row carries the requested status; pos is a ghost, the
\* place of the row in the table
get_unprocessed_commitments(status) ==
    LET sel == {k \in 1..Len(unprocessed) :
                    UnprocessedStatusWhere(unprocessed[k], status)}
        n   == IF Cardinality(sel) < MaxFetchCount
               THEN Cardinality(sel) ELSE MaxFetchCount
    IN \E ord \in FetchOrders(sel, n) :
          fetched' =
              [status |-> status,
               rows |-> [j \in 1..n |->
                   [commitment |-> unprocessed[ord[j]].commitment,
                    status |-> status,
                    created_at |-> unprocessed[ord[j]].created_at,
                    error_message |-> unprocessed[ord[j]].error_message,
                    pos |-> ord[j]]]]

\* the assigner hands a commitment over: insert_pending_identity at
\* next_leaf_index(), then remove_unprocessed_identity
IdleAssigner == [pc |-> "idle", c |-> 0]

\* ------------------------------------------------------- prover registry
BatchSizes == 1..MaxBatch
Urls       == 1..MaxUrl
Timeouts   == 1..MaxTimeout

\* ghost: op, res and hit describe the last call (hit: a key it names was
\* stored), ent[b] holds the values last stored for key b and not removed
NoRegistryCall ==
    [op |-> "none", res |-> "ok", hit |-> FALSE,
     ent |-> [b \in BatchSizes |-> <<>>]]

\* batch_size is the conflict target of the upsert, hence a unique key
ProverKeyConflict(rows, batch_size) ==
    \E row \in rows : row.batch_size = batch_size

\* variant: ON CONFLICT (batch_size) DO NOTHING
ProverUpsertDoNothing(rows, cfg) ==
    IF ProverKeyConflict(rows, cfg.batch_size) THEN rows ELSE rows \cup {cfg}

\* INSERT INTO provers ... ON CONFLICT (batch_size)
\* DO UPDATE SET (url, timeout_s) = ($2, $3)
ProverUpsert(rows, cfg) ==
    IF ProverKeyConflict(rows, cfg.batch_size)
    THEN {IF row.batch_size = cfg.batch_size
          THEN [row EXCEPT !.url = cfg.url, !.timeout_s = cfg.timeout_s]
          ELSE row : row \in rows}
    ELSE rows \cup {cfg}

\* SELECT batch_size, url, timeout_s FROM provers
get_provers(rows) ==
    {[batch_size |-> row.batch_size, url |-> row.url,
      timeout_s |-> row.timeout_s] : row \in rows}

insert_prover_configuration(batch_size, url, timeout_seconds) ==
    LET cfg == [batch_size |-> batch_size, url |-> url,
                timeout_s |-> timeout_seconds] IN
    /\ provers' = ProverUpsert(provers, cfg)
    /\ plog' = [op |-> "upsert_one", res |-> "ok",
                hit |-> ProverKeyConflict(provers, batch_size),
                ent |-> [plog.ent EXCEPT ![batch_size] =
                            <<[url |-> url, timeout_s |-> timeout_seconds]>>]]

\* DELETE FROM provers WHERE batch_size = $1
remove_prover(batch_size) ==
    /\ provers' = {row \in provers : row.batch_size # batch_size}
    /\ plog' = [op |-> "remove", res |-> "ok",
                hit |-> ProverKeyConflict(provers, batch_size),
                ent |-> [plog.ent EXCEPT ![batch_size] = <<>>]]

\* one plain INSERT INTO provers (batch_size, url, timeout_s) VALUES ...
\* for the whole set, without an ON CONFLICT clause: a stored batch_size
\* makes the statement fail and nothing is written
insert_provers(configs) ==
    IF configs = {}
    THEN /\ provers' = provers
         /\ plog' = [plog EXCEPT !.op = "upsert_many", !.res = "ok",
                                 !.hit = FALSE]
    ELSE IF \E cfg \in configs : ProverKeyConflict(provers, cfg.batch_size)
    THEN /\ provers' = provers
         /\ plog' = [plog EXCEPT !.op = "upsert_many",
                                 !.res = "InternalError", !.hit = TRUE]
    ELSE /\ provers' = provers \cup configs
         /\ plog' = [op |-> "upsert_many", res |-> "ok", hit |-> FALSE,
                     ent |-> [b \in BatchSizes |->
                        IF \E cfg \in configs : cfg.batch_size = b
                        THEN LET cfg == CHOOSE c \in configs :
                                           c.batch_size = b
                             IN <<[url |-> cfg.url,
                                   timeout_s |-> cfg.timeout_s]>>
                        ELSE plog.ent[b]]]

\* ------------------------------------------------- concurrent assigners
Assigners == 1..MaxAssigners

IdleWriter == [pc |-> "idle", idx |-> 0, root |-> 0, res |-> "none"]

\* --------------------------------------------------------------- startup
\* what `version()` reads from the migrations table: nothing, or the
\* greatest applied version and its dirty flag
Versions == 1..MaxVersion

SchemaStates ==
    {<<>>} \cup {<<[version |-> v, dirty |-> d]>> :
                    v \in Versions, d \in BOOLEAN}

NotStarted ==
    [schema |-> <<>>, migrate |-> FALSE, latest |-> 0, res |-> "none"]

\* MIGRATOR.run(&pool): refuses a dirty schema and a schema with a version
\* it does not know; otherwise it applies the missing migrations, or fails
\* on the way and may leave a dirty version behind
MigratorRun(schema, latest) ==
    IF schema # <<>> /\ (schema[1].dirty \/ schema[1].version > latest)
    THEN {[ok |-> FALSE, schema |-> schema]}
    ELSE {[ok |-> TRUE, schema |-> <<[version |-> latest, dirty |-> FALSE]>>],
          [ok |-> FALSE, schema |-> schema]}
         \cup {[ok |-> FALSE, schema |-> <<[version |-> v, dirty |-> TRUE]>>] :
                  v \in {w \in Versions : w <= latest}}

\* variant: a schema that is behind is accepted
ValidateVersionAtMost(schema, latest) ==
    IF schema # <<>>
    THEN IF schema[1].dirty THEN "err"
         ELSE IF schema[1].version > latest THEN "err"
         ELSE "ok"
    ELSE "err"

\* if let Some((version, dirty)) = ...version() { dirty / < / > } else { Err }
ValidateVersion(schema, latest) ==
    IF schema # <<>>
    THEN IF schema[1].dirty THEN "err"
         ELSE IF schema[1].version < latest THEN "err"
         ELSE IF schema[1].version > latest THEN "err"
         ELSE "ok"
    ELSE "err"

\* Database::new(options): the optional migration, then the validation
Database_new(database_migrate, latest) ==
    IF database_migrate
    THEN \E run \in MigratorRun(boot.schema, latest) :
            boot' = [schema |-> run.schema, migrate |-> TRUE,
                     latest |-> latest,
                     res |-> IF run.ok
                             THEN ValidateVersion(run.schema, latest)
                             ELSE "err"]
    ELSE boot' = [schema |-> boot.schema, migrate |-> FALSE,
                  latest |-> latest,
                  res |-> ValidateVersion(boot.schema, latest)]

\* the schema as another process (another build, a crashed migration, an
\* operator) leaves it before the store is started again
SchemaLeftBy(schema) ==
    boot' = [NotStarted EXCEPT !.schema = schema]

\* the intake callers and a caller that is not inside a call
IntakeCallers == 1..MaxCallers

IdleCaller == [pc |-> "idle", c |-> 0, first |-> FALSE, res |-> FALSE]

\* ----------------------------------------------------------- specification
Init ==
    /\ identities = EmptyTable
    /\ now = 0
    /\ last = NoCall
    /\ scn = 0
    /\ txs = [x \in Tx |-> IdleTx]
    /\ unprocessed = <<>>
    /\ asg = IdleAssigner
    /\ ex = IdleExists
    /\ hlog = [inserted |-> {}, dropped |-> {}]
    /\ fetched = NoFetch
    /\ provers = {}
    /\ plog = NoRegistryCall
    /\ boot = NotStarted
    /\ writers = [a \in Assigners |-> IdleWriter]
    /\ track = NoTrack
    /\ reads = NoRead
    /\ callers = [a \in IntakeCallers |-> IdleCaller]

\* Root hashes are opaque, only their equality matters: a root that no row
\* carries yet is represented by the least such value.
FreshRoot(ids) ==
    CHOOSE r \in Roots :
        /\ ~RootConflict(ids, r)
        /\ \A q \in Roots : ~RootConflict(ids, q) => r <= q

WriterRoots(ids) ==
    {r \in Roots : RootConflict(ids, r)}
        \cup (IF \E r \in Roots : ~RootConflict(ids, r)
              THEN {FreshRoot(ids)} ELSE {})

\* identities[i] of the tests: the commitment stored at leaf index i
mock_identities(i) == i + 1

\* the single writer inserts at next_leaf_index(); a retried insert repeats
\* a root that is already stored
InsertNext ==
    /\ get_next_leaf_index(identities) < MaxLeaves
    /\ \E r \in WriterRoots(identities) :
          insert_pending_identity(get_next_leaf_index(identities),
                                  mock_identities(get_next_leaf_index(identities)), r)
    /\ UNCHANGED <<scn, txs, intakeVars, registryVars, boot, writers, track, reads,
                   callers>>

InsertFails ==
    /\ get_next_leaf_index(identities) < MaxLeaves
    /\ \E r \in WriterRoots(identities) : insert_pending_identity_error(r)
    /\ UNCHANGED <<scn, txs, intakeVars, registryVars, boot, writers, track, reads,
                   callers>>

MarkProcessed ==
    /\ \E r \in Roots : mark_root_as_processed(r)
    /\ UNCHANGED <<scn, txs, intakeVars, registryVars, boot, writers, track, reads,
                   callers>>

MarkMined ==
    /\ \E r \in Roots : mark_root_as_mined(r)
    /\ UNCHANGED <<scn, txs, intakeVars, registryVars, boot, writers, track, reads,
                   callers>>

ClockTick ==
    /\ Tick
    /\ UNCHANGED <<scn, txs, intakeVars, registryVars, boot, writers, track, reads,
                   callers>>

Next ==
    \/ InsertNext
    \/ InsertFails
    \/ MarkProcessed
    \/ MarkMined
    \/ ClockTick

Spec == Init /\ [][Next]_vars

\* ------------------------------------------------- the lifecycle scenario
\* test mark_root_as_mined_interaction_with_mark_root_as_processed:
\* n >= 5 rows at indices 0..n-1 with roots[i], then four mark_* calls
mock_roots(i) == i + 1

NumIdentities == get_next_leaf_index(identities)

ScenarioInsert ==
    /\ scn = 0
    /\ NumIdentities < MaxScenario
    /\ insert_pending_identity(NumIdentities, mock_identities(NumIdentities),
                               mock_roots(NumIdentities))
    /\ UNCHANGED <<scn, txs, intakeVars, registryVars, boot, writers, track, reads,
                   callers>>

ScenarioProcessed2 ==
    /\ scn = 0
    /\ NumIdentities >= 5
    /\ mark_root_as_processed(mock_roots(2))
    /\ scn' = 1
    /\ UNCHANGED <<txs, intakeVars, registryVars, boot, writers, track, reads,
                   callers>>

ScenarioMined1 ==
    /\ scn = 1
    /\ mark_root_as_mined(mock_roots(1))
    /\ scn' = 2
    /\ UNCHANGED <<txs, intakeVars, registryVars, boot, writers, track, reads,
                   callers>>

ScenarioProcessed4 ==
    /\ scn = 2
    /\ mark_root_as_processed(mock_roots(4))
    /\ scn' = 3
    /\ UNCHANGED <<txs, intakeVars, registryVars, boot, writers, track, reads,
                   callers>>

ScenarioMinedLast ==
    /\ scn = 3
    /\ mark_root_as_mined(mock_roots(NumIdentities - 1))
    /\ scn' = 4
    /\ UNCHANGED <<txs, intakeVars, registryVars, boot, writers, track, reads,
                   callers>>

ScenarioNext ==
    \/ ScenarioInsert
    \/ ScenarioProcessed2
    \/ ScenarioMined1
    \/ ScenarioProcessed4
    \/ ScenarioMinedLast
    \/ ClockTick

SpecScenario == Init /\ [][ScenarioNext]_vars

\* ------------------------------------------ concurrent mark_* transactions
ConcBegin ==
    \E x \in Tx, op \in {"processed", "mined"}, r \in Roots : TxBegin(x, op, r)

ConcLookup == \E x \in Tx : TxLookup(x)

ConcStmtStart == \E x \in Tx : TxStmtStart(x)

ConcStmtRow == \E x \in Tx : \E i \in txs[x].cand : TxStmtRow(x, i)

ConcCommit == \E x \in Tx : TxCommit(x)

ConcAbort == \E x \in Tx : TxAbort(x)

ConcNext ==
    \/ InsertNext
    \/ ConcBegin
    \/ ConcLookup
    \/ ConcStmtStart
    \/ ConcStmtRow
    \/ ConcCommit
    \/ ConcAbort

SpecConc == Init /\ [][ConcNext]_vars

\* --------------------------------- one mark_* call at a time, may fail
\* ghost: the call that failed, the statement it failed at and the rows it
\* had written inside its transaction
FailedCall(x) ==
    [op |-> last.op, root |-> last.root, res |-> "InternalError",
     before |-> last.before, rep |-> last.rep,
     at |-> txs[x].pc, staged |-> DOMAIN txs[x].w]

AllIdle == \A x \in Tx : txs[x].pc = "idle"

AtomicInsert ==
    /\ AllIdle
    /\ InsertNext

AtomicBegin ==
    /\ AllIdle
    /\ \E op \in {"processed", "mined"}, r \in Roots :
          /\ TxBeginStep(1, op, r)
          /\ last' = Call(op, r, "running")
    /\ UNCHANGED <<now, scn, intakeVars, registryVars, boot, writers, track, reads,
                   callers>>

AtomicLookup ==
    /\ TxLookupStep(1)
    /\ last' = IF get_leaf_index_by_root(identities, txs[1].root) = None
               THEN [last EXCEPT !.res = "MissingRoot"]
               ELSE last
    /\ UNCHANGED <<now, scn, intakeVars, registryVars, boot, writers, track, reads,
                   callers>>

AtomicCommit ==
    /\ TxCommitStep(1)
    /\ last' = [last EXCEPT !.res = "ok"]
    /\ UNCHANGED <<now, scn, intakeVars, registryVars, boot, writers, track, reads,
                   callers>>

AtomicAbort ==
    /\ TxAbortStep(1)
    /\ last' = FailedCall(1)
    /\ UNCHANGED <<now, scn, intakeVars, registryVars, boot, writers, track, reads,
                   callers>>

AtomicNext ==
    \/ AtomicInsert
    \/ AtomicBegin
    \/ AtomicLookup
    \/ ConcStmtStart
    \/ ConcStmtRow
    \/ AtomicCommit
    \/ AtomicAbort

SpecAtomic == Init /\ [][AtomicNext]_vars

\* ------------------------------------- intake, hand-over and identity_exists
IntakeInsertNew ==
    /\ Len(unprocessed) < MaxIntake
    /\ \E c \in Commitments : insert_new_identity(c)
    /\ UNCHANGED <<identities, now, last, scn, txs, asg, ex, fetched,
                   registryVars, boot, writers, track, reads, callers>>

HandoffInsert ==
    /\ asg.pc = "idle"
    /\ get_next_leaf_index(identities) < MaxHandoff
    /\ \E k \in 1..Len(unprocessed) : \E r \in WriterRoots(identities) :
          /\ unprocessed[k].status = StatusNew
          /\ insert_pending_identity(get_next_leaf_index(identities),
                                     unprocessed[k].commitment, r)
          /\ asg' = [pc |-> "remove", c |-> unprocessed[k].commitment]
    /\ UNCHANGED <<scn, txs, unprocessed, ex, hlog, fetched,
                   registryVars, boot, writers, track, reads, callers>>

HandoffRemove ==
    /\ asg.pc = "remove"
    /\ remove_unprocessed_identity(asg.c)
    /\ asg' = IdleAssigner
    /\ hlog' = [hlog EXCEPT !.dropped =
                    IF ExistsProcessed(asg.c) THEN @ ELSE @ \cup {asg.c}]
    /\ UNCHANGED <<identities, now, last, scn, txs, ex, fetched,
                   registryVars, boot, writers, track, reads, callers>>

ExistsFirst == \E c \in Commitments : ExistsFirstQuery(c)

HandoffNext ==
    \/ IntakeInsertNew
    \/ HandoffInsert
    \/ HandoffRemove
    \/ ExistsFirst
    \/ ExistsSecondQuery

SpecHandoff == Init /\ [][HandoffNext]_vars

\* ------------------------------ insert_pending_identity with any arguments
AnyInsert ==
    /\ \E l \in 0..(MaxAnyLeaf - 1), c \in Commitments,
          r \in WriterRoots(identities) :
          insert_pending_identity(l, c, r)
    /\ UNCHANGED <<scn, txs, intakeVars, registryVars, boot, writers, track, reads,
                   callers>>

AnyInsertNext ==
    \/ AnyInsert
    \/ ClockTick

SpecInsert == Init /\ [][AnyInsertNext]_vars

\* ------------------- insert_pending_identity at any leaf_index, with marks
\* the caller passes any leaf_index, next_leaf_index() or not
GapInsert ==
    /\ \E l \in 0..(MaxLeaves - 1), r \in WriterRoots(identities) :
          insert_pending_identity(l, mock_identities(l), r)
    /\ UNCHANGED <<scn, txs, intakeVars, registryVars, boot, writers, track,
                   reads, callers>>

GapNext ==
    \/ GapInsert
    \/ MarkProcessed
    \/ MarkMined

SpecGap == Init /\ [][GapNext]_vars

\* ----------------------------------- reading the intake ledger by status
\* the table does not change while a result is held
ListInsertNew ==
    /\ fetched = NoFetch
    /\ Len(unprocessed) < MaxListed
    /\ insert_new_identity(mock_identities(Len(unprocessed)))
    /\ UNCHANGED <<identities, now, last, scn, txs, asg, ex, fetched,
                   registryVars, boot, writers, track, reads, callers>>

ListMarkFailed ==
    /\ fetched = NoFetch
    /\ \E c \in 1..MaxListed, m \in Messages :
          update_err_unprocessed_commitment(c, m)
    /\ UNCHANGED <<identities, now, last, scn, txs, asg, ex, hlog, fetched,
                   registryVars, boot, writers, track, reads, callers>>

ListFetch ==
    /\ fetched = NoFetch
    /\ \E status \in {StatusNew, StatusFailed} :
          get_unprocessed_commitments(status)
    /\ UNCHANGED <<identities, now, last, scn, txs, unprocessed, asg, ex,
                   hlog, registryVars, boot, writers, track, reads, callers>>

ListReturn ==
    /\ fetched # NoFetch
    /\ fetched' = NoFetch
    /\ UNCHANGED <<identities, now, last, scn, txs, unprocessed, asg, ex,
                   hlog, registryVars, boot, writers, track, reads, callers>>

ListTick ==
    /\ fetched = NoFetch
    /\ ClockTick

ListNext ==
    \/ ListInsertNew
    \/ ListMarkFailed
    \/ ListFetch
    \/ ListReturn
    \/ ListTick

SpecList == Init /\ [][ListNext]_vars

\* ------------------------------------------------ prover registry calls
\* a HashSet of configurations, at most one per batch size
ProverSets ==
    UNION {{{[batch_size |-> b, url |-> f[b].url,
              timeout_s |-> f[b].timeout_s] : b \in K} :
                f \in [K -> [url : Urls, timeout_s : Timeouts]]} :
           K \in SUBSET BatchSizes}

UpsertOne ==
    /\ \E b \in BatchSizes, u \in Urls, t \in Timeouts :
          insert_prover_configuration(b, u, t)
    /\ UNCHANGED <<identities, now, last, scn, txs, intakeVars, boot, writers, track, reads,
                   callers>>

RemoveProver ==
    /\ \E b \in BatchSizes : remove_prover(b)
    /\ UNCHANGED <<identities, now, last, scn, txs, intakeVars, boot, writers, track, reads,
                   callers>>

UpsertMany ==
    /\ \E S \in ProverSets : insert_provers(S)
    /\ UNCHANGED <<identities, now, last, scn, txs, intakeVars, boot, writers, track, reads,
                   callers>>

RegistryNext ==
    \/ UpsertOne
    \/ RemoveProver
    \/ UpsertMany

SpecProvers == Init /\ [][RegistryNext]_vars

\* ------------------------------- assigners that do not wait for each other
\* an assigner reads next_leaf_index() and derives a root no other assigner
\* and no stored row carries
AssignerRead(a) ==
    /\ writers[a].pc = "idle"
    /\ get_next_leaf_index(identities) < MaxLeaves
    /\ \E r \in Roots :
          /\ ~RootConflict(identities, r)
          /\ \A b \in Assigners : writers[b].root # r
          /\ writers' = [writers EXCEPT ![a] =
                 [pc |-> "read", idx |-> get_next_leaf_index(identities),
                  root |-> r, res |-> "none"]]
    /\ UNCHANGED <<identities, now, last, scn, txs, intakeVars, registryVars,
                   boot, track, reads, callers>>

\* ... and then calls insert_pending_identity with what it read
AssignerInsert(a) ==
    /\ writers[a].pc = "read"
    /\ insert_pending_identity(writers[a].idx,
                               mock_identities(writers[a].idx),
                               writers[a].root)
    /\ writers' = [writers EXCEPT ![a].pc = "done", ![a].res = last'.res]
    /\ UNCHANGED <<scn, txs, intakeVars, registryVars, boot, track, reads,
                   callers>>

AssignerReturn(a) ==
    /\ writers[a].pc = "done"
    /\ writers' = [writers EXCEPT ![a] = IdleWriter]
    /\ UNCHANGED <<identities, now, last, scn, txs, intakeVars, registryVars,
                   boot, track, reads, callers>>

AssignNext ==
    \/ \E a \in Assigners : AssignerRead(a)
    \/ \E a \in Assigners : AssignerInsert(a)
    \/ \E a \in Assigners : AssignerReturn(a)

SpecAssign == Init /\ [][AssignNext]_vars

\* ---------------------------------------------------- starting the store
StartStore ==
    /\ \E m \in BOOLEAN, latest \in Versions : Database_new(m, latest)
    /\ UNCHANGED <<identities, now, last, scn, txs, intakeVars, registryVars,
                   writers, track, reads, callers>>

SchemaChanges ==
    /\ \E schema \in SchemaStates : SchemaLeftBy(schema)
    /\ UNCHANGED <<identities, now, last, scn, txs, intakeVars, registryVars,
                   writers, track, reads, callers>>

StartupNext ==
    \/ StartStore
    \/ SchemaChanges

SpecStartup == Init /\ [][StartupNext]_vars

\* ------------------------------------- following a commitment through the
\* intake ledger
\* one commitment for every row the ledger can hold
LedgerCommitments == 1..MaxLedger

LedgerInsertNew ==
    /\ fetched = NoFetch
    /\ Len(unprocessed) < MaxLedger
    /\ \E c \in LedgerCommitments :
          /\ insert_new_identity(c)
          /\ track' = [all |-> track.all \cup {c},
                       fresh |-> IF ExistsUnprocessed(c) THEN track.fresh
                                 ELSE track.fresh \cup {c},
                       ret |-> insert_new_identity_result(c)]
    /\ UNCHANGED <<identities, now, last, scn, txs, asg, ex, fetched,
                   registryVars, boot, writers, reads, callers>>

LedgerMarkFailed ==
    /\ fetched = NoFetch
    /\ \E c \in LedgerCommitments, m \in Messages :
          /\ update_err_unprocessed_commitment(c, m)
          /\ track' = [track EXCEPT !.all = @ \ {c}, !.fresh = @ \ {c}]
    /\ UNCHANGED <<identities, now, last, scn, txs, asg, ex, hlog, fetched,
                   registryVars, boot, writers, reads, callers>>

LedgerRemove ==
    /\ fetched = NoFetch
    /\ \E c \in LedgerCommitments :
          /\ remove_unprocessed_identity(c)
          /\ track' = [track EXCEPT !.all = @ \ {c}, !.fresh = @ \ {c}]
    /\ UNCHANGED <<identities, now, last, scn, txs, asg, ex, hlog, fetched,
                   registryVars, boot, writers, reads, callers>>

LedgerNext ==
    \/ LedgerInsertNew
    \/ LedgerMarkFailed
    \/ LedgerRemove
    \/ ListFetch
    \/ ListReturn

SpecLedger == Init /\ [][LedgerNext]_vars

\* ----------------------------------------- reads of a damaged status value
\* the storage is damaged outside the program: the status of one stored row
\* becomes a string that names no Status variant
DamageIdentityStatus ==
    /\ reads = NoRead
    /\ \E i \in DOMAIN identities :
          /\ identities[i].status # UnreadableStatus
          /\ identities' = [identities EXCEPT ![i].status = UnreadableStatus]
    /\ UNCHANGED <<now, last, scn, txs, intakeVars, registryVars, boot,
                   writers, track, reads, callers>>

DamageUnprocessedStatus ==
    /\ reads = NoRead
    /\ \E k \in 1..Len(unprocessed) :
          /\ unprocessed[k].status # UnreadableStatus
          /\ unprocessed' = [unprocessed EXCEPT ![k].status = UnreadableStatus]
    /\ UNCHANGED <<identities, now, last, scn, txs, asg, ex, hlog, fetched,
                   registryVars, boot, writers, track, reads, callers>>

ReadRootState ==
    /\ reads = NoRead
    /\ \E r \in Roots : get_root_state_call(r)
    /\ UNCHANGED <<identities, now, last, scn, txs, intakeVars, registryVars,
                   boot, writers, track, callers>>

ReadIdentityLeafIndex ==
    /\ reads = NoRead
    /\ \E c \in Commitments : get_identity_leaf_index(c)
    /\ UNCHANGED <<identities, now, last, scn, txs, intakeVars, registryVars,
                   boot, writers, track, callers>>

ReadUnprocessedStatus ==
    /\ reads = NoRead
    /\ \E c \in Commitments : get_unprocessed_commit_status_call(c)
    /\ UNCHANGED <<identities, now, last, scn, txs, intakeVars, registryVars,
                   boot, writers, track, callers>>

ReadReturn ==
    /\ reads # NoRead
    /\ reads' = NoRead
    /\ UNCHANGED <<identities, now, last, scn, txs, intakeVars, registryVars,
                   boot, writers, track, callers>>

DamageNext ==
    \/ InsertNext
    \/ IntakeInsertNew
    \/ DamageIdentityStatus
    \/ DamageUnprocessedStatus
    \/ ReadRootState
    \/ ReadIdentityLeafIndex
    \/ ReadUnprocessedStatus
    \/ ReadReturn

SpecDamage == Init /\ [][DamageNext]_vars

\* ------------------------------ intake callers that check before they insert
\* every caller runs identity_exists(C), two statements, and calls
\* insert_new_identity(C) only when the answer was false
CallerFirstQuery(a) ==
    /\ callers[a].pc = "idle"
    /\ \E c \in Commitments :
          callers' = [callers EXCEPT ![a] =
                         [pc |-> "second", c |-> c,
                          first |-> ExistsUnprocessed(c), res |-> FALSE]]
    /\ UNCHANGED <<identities, now, last, scn, txs, intakeVars, registryVars,
                   boot, writers, track, reads>>

CallerSecondQuery(a) ==
    /\ callers[a].pc = "second"
    /\ callers' = [callers EXCEPT ![a].pc = "checked",
                                  ![a].res = callers[a].first
                                                \/ ExistsProcessed(callers[a].c)]
    /\ UNCHANGED <<identities, now, last, scn, txs, intakeVars, registryVars,
                   boot, writers, track, reads>>

CallerInsertNew(a) ==
    /\ callers[a].pc = "checked"
    /\ ~callers[a].res
    /\ Len(unprocessed) < MaxLedger
    /\ insert_new_identity(callers[a].c)
    /\ callers' = [callers EXCEPT ![a] = IdleCaller]
    /\ UNCHANGED <<identities, now, last, scn, txs, asg, ex, fetched,
                   registryVars, boot, writers, track, reads>>

\* the caller leaves without an insert: the commitment exists already (or
\* the ledger has reached the bound on its rows)
CallerRejects(a) ==
    /\ callers[a].pc = "checked"
    /\ callers[a].res \/ Len(unprocessed) >= MaxLedger
    /\ callers' = [callers EXCEPT ![a] = IdleCaller]
    /\ UNCHANGED <<identities, now, last, scn, txs, intakeVars, registryVars,
                   boot, writers, track, reads>>

CallersNext ==
    \/ \E a \in IntakeCallers : CallerFirstQuery(a)
    \/ \E a \in IntakeCallers : CallerSecondQuery(a)
    \/ \E a \in IntakeCallers : CallerInsertNew(a)
    \/ \E a \in IntakeCallers : CallerRejects(a)

SpecCallers == Init /\ [][CallersNext]_vars

\* --------------------------------------- intake with one caller at a time
IntakeMarkFailed ==
    /\ \E c \in Commitments, m \in Messages :
          update_err_unprocessed_commitment(c, m)
    /\ UNCHANGED <<identities, now, last, scn, txs, asg, ex, hlog, fetched,
                   registryVars, boot, writers, track, reads, callers>>

\* no other call runs between the two queries of identity_exists
SerialIntakeNext ==
    \/ /\ ex.pc # "second"
       /\ \/ IntakeInsertNew
          \/ IntakeMarkFailed
          \/ HandoffInsert
          \/ HandoffRemove
    \/ ExistsFirst
    \/ ExistsSecondQuery

SpecIntake == Init /\ [][SerialIntakeNext]_vars

\* ------------------------------------------------------------- properties
Target == get_leaf_index_by_root(last.before, last.root)

\* C1: prefix invariant -- ordered by leaf_index the finality rank never
\* increases: no row has a stronger status than a row with a smaller index.
PrefixInvariant ==
    \A i \in DOMAIN identities : \A j \in DOMAIN identities :
        i < j => Rank(identities[i].status) >= Rank(identities[j].status)

PrefixInvariantWitness ==
    /\ \E i \in DOMAIN identities : \E j \in DOMAIN identities :
        \E k \in DOMAIN identities :
          /\ i < j /\ j < k
          /\ identities[i].status = StatusMined
          /\ identities[j].status = StatusProcessed
          /\ identities[k].status = StatusPending
    /\ last.op \in {"processed", "mined"}
    /\ last.res = "ok"

\* C2: monotone mining -- a row that is Mined stays Mined in every step.
MinedIsTerminal ==
    [][\A i \in DOMAIN identities :
          identities[i].status = StatusMined
              => identities'[i].status = StatusMined]_vars

\* C3: rollback -- after a successful mark_processed of the root at leaf
\* index t every row above t is Pending with mined_at NULL and every row up
\* to t is Processed or Mined.
RollbackPostcondition ==
    (last.op = "processed" /\ last.res = "ok") =>
        \A i \in DOMAIN identities :
            IF i > Target
            THEN /\ identities[i].status = StatusPending
                 /\ identities[i].mined_at = NULL
            ELSE identities[i].status \in {StatusProcessed, StatusMined}

RollbackWitness ==
    /\ last.op = "processed"
    /\ last.res = "ok"
    /\ \E i \in DOMAIN last.before :
          /\ i > Target
          /\ last.before[i].status = StatusProcessed
          /\ last.before[i].mined_at # NULL
          /\ identities[i].status = StatusPending

\* C4: a row that root_state reports as Processed or Mined has its
\* mined_valid_as_of timestamp set.
FinalRootHasMinedTimestamp ==
    \A r \in Roots :
        LET s == get_root_state(identities, r) IN
        (s # <<>> /\ s[1].status \in {StatusProcessed, StatusMined})
            => s[1].mined_valid_as_of # NULL

\* C5: under concurrently running mark_processed, mark_mined and
\* insert_pending every committed state satisfies the prefix invariant (a
\* transaction's writes become visible only together, at its commit).
CommittedPrefixInvariant ==
    \A j \in DOMAIN identities : \A i \in DOMAIN identities :
        Rank(identities[j].status) > Rank(identities[i].status) => j < i

\* C6: mark_processed / mark_mined with a root that no row carries fail with
\* MissingRoot and leave every row unchanged.
MissingRootNoChange ==
    (last.op \in {"processed", "mined"}
        /\ ~RootConflict(last.before, last.root))
    => (last.res = "MissingRoot" /\ identities = last.before)

MissingRootWitness ==
    /\ last.op \in {"processed", "mined"}
    /\ last.res = "MissingRoot"
    /\ DOMAIN identities # {}
    /\ \E i \in DOMAIN identities : identities[i].status # StatusPending

\* C7: mark_mined is idempotent -- repeated with the same root, or called
\* when every row up to the target is already Mined, it changes no row.
MarkMinedIdempotent ==
    (last.op = "mined" /\ last.res = "ok"
        /\ (last.rep \/ \A i \in DOMAIN last.before :
                            i <= Target => last.before[i].status = StatusMined))
    => identities = last.before

MarkMinedIdempotentWitness ==
    /\ last.op = "mined"
    /\ last.res = "ok"
    /\ last.rep
    /\ \E i \in DOMAIN identities :
          identities[i].mined_at # NULL /\ identities[i].mined_at < now

\* C8: mark_processed repeated with the same root leaves statuses and
\* mined_at values as the first call left them.
MarkProcessedIdempotent ==
    (last.op = "processed" /\ last.res = "ok" /\ last.rep)
    => \A i \in DOMAIN identities :
          /\ identities[i].status = last.before[i].status
          /\ identities[i].mined_at = last.before[i].mined_at

MarkProcessedIdempotentWitness ==
    /\ last.op = "processed"
    /\ last.res = "ok"
    /\ last.rep
    /\ \E i \in DOMAIN identities :
          /\ identities[i].status = StatusProcessed
          /\ identities[i].mined_at < now
    /\ \E i \in DOMAIN identities : identities[i].status = StatusPending

\* C9: lifecycle scenario on n >= 5 Pending rows -- mark_processed(R2) gives
\* [Processed x3, Pending..], mark_mined(R1) gives [Mined x2, Processed,
\* Pending..], mark_processed(R4) gives [Mined x2, Processed x3, Pending..],
\* mark_mined(R_last) gives all Mined.
StatusAt(i) == identities[i].status

ScenarioStatuses ==
    /\ scn = 1 => \A i \in DOMAIN identities :
                      StatusAt(i) = IF i <= 2 THEN StatusProcessed
                                    ELSE StatusPending
    /\ scn = 2 => \A i \in DOMAIN identities :
                      StatusAt(i) = IF i <= 1 THEN StatusMined
                                    ELSE IF i = 2 THEN StatusProcessed
                                    ELSE StatusPending
    /\ scn = 3 => \A i \in DOMAIN identities :
                      StatusAt(i) = IF i <= 1 THEN StatusMined
                                    ELSE IF i <= 4 THEN StatusProcessed
                                    ELSE StatusPending
    /\ scn = 4 => \A i \in DOMAIN identities : StatusAt(i) = StatusMined

ScenarioWitness ==
    /\ scn = 4
    /\ NumIdentities > 5
    /\ last.op = "mined"
    /\ last.res = "ok"
    /\ last.before[5].status = StatusPending

\* C10: while a commitment is handed over by insert_pending followed by
\* remove, an exists call started after insert_new completed never returns
\* false.
ExistsTrueDuringHandoff ==
    (ex.pc = "done" /\ ex.afterNew /\ ex.c \notin hlog.dropped) => ex.res

ExistsTrueDuringHandoffWitness ==
    /\ ex.pc = "done"
    /\ ex.afterNew
    /\ ex.c \notin hlog.dropped
    /\ ex.first
    /\ ex.gone
    /\ ExistsProcessed(ex.c)

\* the commitments stored in either table
IntakeCommitments ==
    {unprocessed[k].commitment : k \in 1..Len(unprocessed)}

IdentityCommitments ==
    {identities[i].commitment : i \in DOMAIN identities}

\* C11: exists(C) returns true exactly when C is the commitment of an intake
\* row of any status or of an identity row.
ExistsIffInPipeline ==
    [][(ex.pc = "second" /\ ex'.pc = "done")
          => (ex'.res <=> (ex.c \in IntakeCommitments
                              \/ ex.c \in IdentityCommitments))]_vars

ExistsIffInPipelineWitness ==
    /\ ex.pc = "done"
    /\ ex.res
    /\ ex.c \notin IdentityCommitments
    /\ \E k \in 1..Len(unprocessed) :
          /\ unprocessed[k].commitment = ex.c
          /\ unprocessed[k].status = StatusFailed
    /\ \E c \in Commitments :
          c \notin IntakeCommitments /\ c \in IdentityCommitments

\* C12: no commitment is in the intake ledger and in the identities table
\* at the same time.
NoCommitmentInBothTables ==
    IntakeCommitments \cap IdentityCommitments = {}

\* C13: with the single writer inserting at next_leaf_index(), the leaf
\* indices are exactly 0..n-1 and next_leaf_index() is n (0 on the empty
\* table), whatever inserts were silent no-ops or failed.
LeafIndicesDense ==
    LET n == Cardinality(DOMAIN identities) IN
    /\ DOMAIN identities = 0..(n - 1)
    /\ get_next_leaf_index(identities) = n

LeafIndicesDenseWitness ==
    /\ Cardinality(DOMAIN identities) = 2
    /\ last.op = "insert"
    /\ last.res = "InternalError"
    /\ \E i \in DOMAIN identities : identities[i].status # StatusPending

\* C14: insert_pending on a root that is already stored returns success and
\* leaves identities unchanged, whatever leaf_index and commitment it
\* carries; on a fresh root and a fresh leaf_index it adds exactly one row,
\* Pending, pending_as_of = now, mined_at NULL.
InsertPendingPostcondition ==
    [][\A l \in 0..(MaxAnyLeaf - 1), c \in Commitments, r \in Roots :
          insert_pending_identity(l, c, r) =>
              IF \E i \in DOMAIN identities : identities[i].root = r
              THEN identities' = identities /\ last'.res = "ok"
              ELSE l \notin DOMAIN identities =>
                      /\ last'.res = "ok"
                      /\ DOMAIN identities' = DOMAIN identities \cup {l}
                      /\ \A i \in DOMAIN identities :
                            identities'[i] = identities[i]
                      /\ identities'[l].commitment = c
                      /\ identities'[l].root = r
                      /\ identities'[l].status = StatusPending
                      /\ identities'[l].pending_as_of = now
                      /\ identities'[l].mined_at = NULL]_vars

InsertPendingPostconditionWitness ==
    /\ last.op = "insert"
    /\ last.res = "ok"
    /\ identities = last.before
    /\ DOMAIN identities = {1}
    /\ identities[1].pending_as_of = 0
    /\ now = 1

\* C16: commitments_by_status(s) returns exactly the identity rows whose
\* status is s, each once, as (leaf_index, commitment) pairs in strictly
\* ascending leaf_index order.
CommitmentsByStatusExact ==
    \A s \in {StatusPending, StatusProcessed, StatusMined} :
        LET res == get_commitments_by_status(identities, s) IN
        /\ \A k \in 1..Len(res) :
              /\ res[k].leaf_index \in DOMAIN identities
              /\ identities[res[k].leaf_index].status = s
              /\ res[k].element = identities[res[k].leaf_index].commitment
        /\ \A i \in DOMAIN identities :
              identities[i].status = s =>
                  \E k \in 1..Len(res) : res[k].leaf_index = i
        /\ \A k \in 1..(Len(res) - 1) :
              res[k].leaf_index < res[k + 1].leaf_index

CommitmentsByStatusExactWitness ==
    /\ Len(get_commitments_by_status(identities, StatusProcessed)) = 2
    /\ Len(get_commitments_by_status(identities, StatusPending)) = 1

\* C17: list_by_status returns the matching intake rows in insertion
\* (creation time) order.
FetchedInInsertionOrder ==
    \A j, k \in 1..Len(fetched.rows) :
        j < k => /\ fetched.rows[j].created_at <= fetched.rows[k].created_at
                 /\ fetched.rows[j].pos < fetched.rows[k].pos

\* C18: list_by_status returns only rows whose stored status is the
\* requested one, and never more rows than the fetch limit.
FetchedFilteredAndLimited ==
    fetched # NoFetch =>
        /\ Len(fetched.rows) <= MaxFetchCount
        /\ \A j \in 1..Len(fetched.rows) :
              /\ unprocessed[fetched.rows[j].pos].status = fetched.status
              /\ fetched.rows[j].status = fetched.status
              /\ fetched.rows[j].commitment
                    = unprocessed[fetched.rows[j].pos].commitment

FetchedFilteredAndLimitedWitness ==
    /\ fetched.status = StatusFailed
    /\ Len(fetched.rows) = MaxFetchCount
    /\ Cardinality({k \in 1..Len(unprocessed) :
                       unprocessed[k].status = StatusFailed}) > MaxFetchCount

\* C19: the registry is a keyed map: list() has at most one configuration
\* per batch_size, carrying the url and timeout of the last upsert for that
\* key that no remove followed; upsert_one and remove always succeed and
\* leave the other keys alone.
RegistryIsKeyedMap ==
    /\ \A b \in BatchSizes :
          LET listed == {cfg \in get_provers(provers) : cfg.batch_size = b} IN
          IF plog.ent[b] = <<>>
          THEN listed = {}
          ELSE listed = {[batch_size |-> b, url |-> plog.ent[b][1].url,
                          timeout_s |-> plog.ent[b][1].timeout_s]}
    /\ plog.op \in {"upsert_one", "remove"} => plog.res = "ok"

RegistryIsKeyedMapWitness ==
    /\ plog.op = "upsert_one"
    /\ plog.hit
    /\ Cardinality(get_provers(provers)) = 2

\* C20: upsert_many changes nothing on the empty set and otherwise treats
\* every element as upsert_one does: the call succeeds, every element is
\* stored, replacing the entry of its batch_size if there was one, and the
\* other entries stay.
UpsertManyUpsertsEach ==
    [][\A S \in ProverSets :
          insert_provers(S) =>
              /\ plog'.res = "ok"
              /\ \A cfg \in S : cfg \in get_provers(provers')
              /\ \A row \in get_provers(provers') :
                    \/ row \in S
                    \/ /\ row \in get_provers(provers)
                       /\ \A cfg \in S : cfg.batch_size # row.batch_size]_vars

\* C15: mark_processed and mark_mined commit fully or fail fully: when the
\* call fails at the lookup, at the first UPDATE, at the second UPDATE or at
\* the commit, the caller gets an error and no identity row differs from
\* the state before the call.
FailedMarkChangesNothing ==
    (last.op \in {"processed", "mined"} /\ last.res # "ok")
        => identities = last.before

FailedMarkChangesNothingWitness ==
    /\ last.op = "processed"
    /\ last.res = "InternalError"
    /\ last.at = "commit"
    /\ \E i, j \in last.staged :
          /\ i <= get_leaf_index_by_root(last.before, last.root)
          /\ j > get_leaf_index_by_root(last.before, last.root)

\* C21: Database::new returns a store only when, after the optional
\* migration, the persisted version is the latest one and not dirty; it
\* returns an error when the version is behind, ahead, dirty or unreadable.
StartupOnlyOnLatestCleanSchema ==
    boot.res # "none" =>
        /\ boot.res \in {"ok", "err"}
        /\ boot.res = "ok" =>
              /\ boot.schema # <<>>
              /\ boot.schema[1].version = boot.latest
              /\ ~boot.schema[1].dirty
        /\ (boot.schema = <<>>
              \/ boot.schema[1].dirty
              \/ boot.schema[1].version < boot.latest
              \/ boot.schema[1].version > boot.latest) => boot.res = "err"

StartupOnlyOnLatestCleanSchemaWitness ==
    /\ boot.res = "err"
    /\ ~boot.migrate
    /\ boot.schema # <<>>
    /\ ~boot.schema[1].dirty
    /\ boot.schema[1].version < boot.latest

\* C22: every status change of a row is Pending -> Processed, Processed ->
\* Mined or Processed -> Pending, and a row's status only weakens in a
\* mark_processed call on a root stored at a smaller leaf_index.
OnlyLifecycleEdges ==
    [][\A i \in DOMAIN identities :
          identities'[i].status # identities[i].status =>
              /\ <<identities[i].status, identities'[i].status>> \in
                    {<<StatusPending, StatusProcessed>>,
                     <<StatusProcessed, StatusMined>>,
                     <<StatusProcessed, StatusPending>>}
              /\ Rank(identities'[i].status) < Rank(identities[i].status) =>
                    /\ last'.op = "processed"
                    /\ get_leaf_index_by_root(identities, last'.root) # None
                    /\ get_leaf_index_by_root(identities, last'.root) < i]_vars

\* C23: mark_processed of the root at leaf index t turns exactly the Pending
\* rows up to t into Processed with mined_at = now, and leaves the rows up
\* to t that are already Processed or Mined as they are.
MarkProcessedPreviousRows ==
    [][\A r \in Roots :
          LET t == get_leaf_index_by_root(identities, r) IN
          (mark_root_as_processed(r) /\ t # None) =>
              \A i \in DOMAIN identities :
                  i <= t =>
                      IF identities[i].status = StatusPending
                      THEN /\ identities'[i].status = StatusProcessed
                           /\ identities'[i].mined_at = now
                           /\ identities'[i].commitment
                                 = identities[i].commitment
                           /\ identities'[i].root = identities[i].root
                           /\ identities'[i].pending_as_of
                                 = identities[i].pending_as_of
                      ELSE identities'[i] = identities[i]]_vars

MarkProcessedPreviousRowsWitness ==
    /\ last.op = "processed"
    /\ last.res = "ok"
    /\ \E i, j \in DOMAIN identities :
          /\ i <= Target
          /\ j <= Target
          /\ last.before[i].status = StatusPending
          /\ identities[i].status = StatusProcessed
          /\ identities[i].mined_at = 1
          /\ last.before[j].status = StatusProcessed
          /\ identities[j].mined_at = 0

\* C24: mark_mined of the root at leaf index t sets the status of every row
\* up to t to Mined and changes nothing else: no timestamp, and no row
\* above t.
MarkMinedFrame ==
    (last.op = "mined" /\ last.res = "ok") =>
        /\ DOMAIN identities = DOMAIN last.before
        /\ \A i \in DOMAIN identities :
              IF i <= Target
              THEN identities[i] =
                       [last.before[i] EXCEPT !.status = StatusMined]
              ELSE identities[i] = last.before[i]

MarkMinedFrameWitness ==
    /\ last.op = "mined"
    /\ last.res = "ok"
    /\ \E i, j, k \in DOMAIN identities :
          /\ i < j
          /\ j <= Target
          /\ Target < k
          /\ last.before[i].status = StatusMined
          /\ last.before[j].status = StatusProcessed
          /\ identities[k].status = StatusProcessed
          /\ identities[k].mined_at # NULL

\* C25 as stated: a row's mined_at goes from NULL to a timestamp only in
\* the step in which the row becomes Mined.
MinedAtSetOnlyWhenMined ==
    [][\A i \in DOMAIN identities :
          (identities[i].mined_at = NULL /\ identities'[i].mined_at # NULL)
              => /\ identities[i].status # StatusMined
                 /\ identities'[i].status = StatusMined]_vars

\* C25 amended: a row's mined_at goes from NULL to a timestamp only in the
\* step in which mark_processed turns the row from Pending into Processed,
\* and the timestamp is the time of that call; a row that becomes Mined
\* keeps the mined_at it has.
MinedAtSetOnlyWhenProcessed ==
    [][\A i \in DOMAIN identities :
          /\ (identities[i].mined_at = NULL /\ identities'[i].mined_at # NULL)
                => /\ identities[i].status = StatusPending
                   /\ identities'[i].status = StatusProcessed
                   /\ identities'[i].mined_at = now
                   /\ last'.op = "processed"
          /\ (identities[i].status # StatusMined
                /\ identities'[i].status = StatusMined)
                => identities'[i].mined_at = identities[i].mined_at]_vars

MinedAtSetOnlyWhenProcessedWitness ==
    /\ last.op = "processed"
    /\ last.res = "ok"
    /\ \E i, j \in DOMAIN identities :
          /\ last.before[i].status = StatusPending
          /\ last.before[i].mined_at = NULL
          /\ identities[i].status = StatusProcessed
          /\ identities[i].mined_at = 1
          /\ identities[j].status = StatusMined
          /\ identities[j].mined_at = NULL

\* C26: every Pending row has mined_at NULL: root_state reports
\* mined_valid_as_of = None for a Pending root, freshly inserted or reset.
PendingHasNoMinedAt ==
    /\ \A i \in DOMAIN identities :
          identities[i].status = StatusPending => identities[i].mined_at = NULL
    /\ \A r \in Roots :
          LET s == get_root_state(identities, r) IN
          (s # <<>> /\ s[1].status = StatusPending)
              => s[1].mined_valid_as_of = None

PendingHasNoMinedAtWitness ==
    /\ last.op = "processed"
    /\ last.res = "ok"
    /\ \E r \in Roots :
          /\ get_root_state(last.before, r) # <<>>
          /\ get_root_state(last.before, r)[1].status = StatusProcessed
          /\ get_root_state(last.before, r)[1].mined_valid_as_of # None
          /\ get_root_state(identities, r)[1].status = StatusPending
    /\ \E q \in Roots :
          /\ get_root_state(last.before, q) # <<>>
          /\ get_root_state(identities, q)[1].status = StatusPending
          /\ get_root_state(last.before, q)[1].status = StatusPending

\* C28: count_pending_identities() is the number of Pending rows; after
\* mark_processed or mark_mined of the root at leaf index t on n rows that
\* were all Pending it is n - 1 - t.
PendingCount ==
    /\ count_pending_identities(identities)
          = Len(get_commitments_by_status(identities, StatusPending))
    /\ count_pending_identities(identities)
          + Len(get_commitments_by_status(identities, StatusProcessed))
          + Len(get_commitments_by_status(identities, StatusMined))
          = Cardinality(DOMAIN identities)
    /\ (/\ last.op \in {"processed", "mined"}
        /\ last.res = "ok"
        /\ \A i \in DOMAIN last.before :
              last.before[i].status = StatusPending)
          => count_pending_identities(identities)
                = Cardinality(DOMAIN identities) - 1 - Target

PendingCountWitness ==
    /\ last.op = "processed"
    /\ last.res = "ok"
    /\ \A i \in DOMAIN last.before : last.before[i].status = StatusPending
    /\ Cardinality(DOMAIN identities) = 3
    /\ Target = 0
    /\ count_pending_identities(identities) = 2

\* C27: two assigners that read next_leaf_index() at the same time and
\* insert with distinct roots never leave two rows with one leaf_index or
\* one root: the row of the first insert stays as stored and the other
\* insert returns an error, not success.
ConflictingInsertFails ==
    /\ \A i, j \in DOMAIN identities :
          i # j => identities[i].root # identities[j].root
    /\ \A a \in Assigners :
          writers[a].pc = "done" =>
              /\ writers[a].res \in {"ok", "InternalError"}
              /\ writers[a].idx \in DOMAIN identities
              /\ writers[a].res = "ok"
                    <=> identities[writers[a].idx].root = writers[a].root
              /\ writers[a].res = "InternalError" =>
                    \A i \in DOMAIN identities :
                        identities[i].root # writers[a].root
    /\ \A a, b \in Assigners :
          (/\ a # b
           /\ writers[a].pc = "done"
           /\ writers[b].pc = "done"
           /\ writers[a].idx = writers[b].idx)
              => ~(writers[a].res = "ok" /\ writers[b].res = "ok")

ConflictingInsertFailsWitness ==
    \E a, b \in Assigners :
        /\ writers[a].pc = "done"
        /\ writers[b].pc = "done"
        /\ writers[a].idx = 1
        /\ writers[b].idx = 1
        /\ writers[a].res = "ok"
        /\ writers[b].res = "InternalError"
        /\ DOMAIN identities = {0, 1}

InsertedStaysNewAndListed ==
    [][/\ \A c \in LedgerCommitments :
             insert_new_identity(c) =>
                 /\ track'.ret = c
                 /\ Len(unprocessed') = Len(unprocessed) + 1
                 /\ unprocessed'[Len(unprocessed')].commitment = c
                 /\ unprocessed'[Len(unprocessed')].status = StatusNew
                 /\ unprocessed'[Len(unprocessed')].error_message = NULL
       /\ \A c \in track'.all :
             get_unprocessed_commit_status(unprocessed', c) =
                 {<<[status |-> StatusNew, message |-> EmptyMessage]>>}
       /\ (fetched = NoFetch /\ fetched' # NoFetch
               /\ fetched'.status = StatusNew) =>
             \A c \in track.all :
                 \E j \in 1..Len(fetched'.rows) :
                     fetched'.rows[j].commitment = c
       /\ \A c \in LedgerCommitments :
             remove_unprocessed_identity(c) =>
                 /\ ~\E k \in 1..Len(unprocessed') :
                        unprocessed'[k].commitment = c
                 /\ identities' = identities]_vars

\* C30 amended: insert_new(C) returns C and stores a New row without an
\* error message; if the ledger held no row of C before, then until
\* mark_failed(C, _) or remove(C) the status lookup for C reports New, and
\* C is in list_by_status(New) whenever no more rows are New than the
\* listing's hard maximum; remove(C) leaves no intake row of C and does not
\* touch identities
FreshInsertedStaysNewAndListed ==
    [][/\ \A c \in LedgerCommitments :
             insert_new_identity(c) =>
                 /\ track'.ret = c
                 /\ Len(unprocessed') = Len(unprocessed) + 1
                 /\ unprocessed'[Len(unprocessed')].commitment = c
                 /\ unprocessed'[Len(unprocessed')].status = StatusNew
                 /\ unprocessed'[Len(unprocessed')].error_message = NULL
       /\ \A c \in track'.fresh :
             get_unprocessed_commit_status(unprocessed', c) =
                 {<<[status |-> StatusNew, message |-> EmptyMessage]>>}
       /\ (/\ fetched = NoFetch /\ fetched' # NoFetch
           /\ fetched'.status = StatusNew
           /\ Cardinality({k \in 1..Len(unprocessed) :
                   unprocessed[k].status = StatusNew}) <= MaxFetchCount) =>
             \A c \in track.fresh :
                 \E j \in 1..Len(fetched'.rows) :
                     fetched'.rows[j].commitment = c
       /\ \A c \in LedgerCommitments :
             remove_unprocessed_identity(c) =>
                 /\ ~\E k \in 1..Len(unprocessed') :
                        unprocessed'[k].commitment = c
                 /\ identities' = identities]_vars

\* a listing of the New rows holds a commitment that was taken in on a
\* ledger without rows of it, next to a Failed row of another commitment,
\* after some commitment was failed and taken in again
FreshInsertedStaysNewAndListedWitness ==
    /\ fetched # NoFetch
    /\ fetched.status = StatusNew
    /\ track.fresh # track.all
    /\ \E c \in track.fresh :
          /\ \E j \in 1..Len(fetched.rows) : fetched.rows[j].commitment = c
          /\ \E k \in 1..Len(unprocessed) :
                /\ unprocessed[k].commitment # c
                /\ unprocessed[k].status = StatusFailed

\* C31: a read (identity_status, root_state, the unprocessed status lookup)
\* that meets a stored status value which does not parse returns a
\* CorruptState error to its caller instead of crashing, and leaves the
\* stored state as it was
UnreadableStatusGivesCorruptState ==
    [][(reads = NoRead /\ reads' # NoRead /\ reads'.unreadable) =>
           /\ reads'.res = "CorruptState"
           /\ identities' = identities
           /\ unprocessed' = unprocessed]_vars

\* C32: no operation deletes an identity row or changes its leaf_index,
\* commitment, root or pending_as_of: a stored root keeps resolving to the
\* same leaf_index and the same pending_valid_as_of through every later
\* mark_processed, mark_mined and insert_pending
IdentityRowsKeepTheirKeys ==
    [][/\ \A i \in DOMAIN identities :
             /\ i \in DOMAIN identities'
             /\ identities'[i].commitment = identities[i].commitment
             /\ identities'[i].root = identities[i].root
             /\ identities'[i].pending_as_of = identities[i].pending_as_of
       /\ \A r \in Roots :
             get_leaf_index_by_root(identities, r) # None =>
                 /\ get_leaf_index_by_root(identities', r) =
                        get_leaf_index_by_root(identities, r)
                 /\ get_root_state(identities', r) # <<>>
                 /\ get_root_state(identities', r)[1].pending_valid_as_of =
                        get_root_state(identities, r)[1].pending_valid_as_of]_vars

\* mark_processed has just reset a row above its target, and the table
\* holds rows stored at different times
IdentityRowsKeepTheirKeysWitness ==
    /\ last.op = "processed"
    /\ last.res = "ok"
    /\ \E i, j \in DOMAIN identities :
          /\ i < j
          /\ identities[i].pending_as_of < identities[j].pending_as_of
          /\ last.before[j].status # StatusPending
          /\ identities[j].status = StatusPending
          /\ get_leaf_index_by_root(identities, identities[j].root) = j

\* C33 as stated: the store keeps the prefix invariant for every
\* insert_pending it accepts, whatever leaf_index is passed: a newly stored
\* Pending row has no Processed or Mined row at a larger leaf_index
AcceptedInsertKeepsPrefix ==
    [][\A l \in DOMAIN identities' \ DOMAIN identities :
           identities'[l].status = StatusPending =>
               \A j \in DOMAIN identities' :
                   j > l => identities'[j].status = StatusPending]_vars

\* C33 amended: an insert_pending that the store accepts with leaf_index =
\* next_leaf_index() keeps the prefix invariant: the newly stored Pending
\* row has no row at a larger leaf_index, so no Processed or Mined one
InsertAtNextKeepsPrefix ==
    [][\A l \in DOMAIN identities' \ DOMAIN identities :
           (/\ l = get_next_leaf_index(identities)
            /\ identities'[l].status = StatusPending) =>
               \A j \in DOMAIN identities' :
                   j > l => identities'[j].status = StatusPending]_vars

\* a row was stored at next_leaf_index(), above a row that is no longer
\* Pending, in a table whose leaf 0 was never filled
InsertAtNextKeepsPrefixWitness ==
    /\ last.op = "insert"
    /\ last.res = "ok"
    /\ 0 \notin DOMAIN identities
    /\ \E l \in DOMAIN identities \ DOMAIN last.before :
          /\ l = get_next_leaf_index(last.before)
          /\ identities[l].status = StatusPending
          /\ \E j \in DOMAIN last.before :
                j < l /\ identities[j].status # StatusPending

\* C34: when every intake caller runs exists(C) first and calls
\* insert_new(C) only if it returned false, the intake ledger never holds
\* two rows of one commitment, also with several callers at the same time
CheckedIntakeHasNoDuplicates ==
    \A j, k \in 1..Len(unprocessed) :
        j # k => unprocessed[j].commitment # unprocessed[k].commitment

====
